---- MODULE Spec2Model ----
(***************************************************************************)
(* State-machine model of docs/app.js: the date / kind / time-slider       *)
(* selection, the index -> snapshot fetch sequence of refresh(), and the   *)
(* grid, legend, time label and status it displays.                        *)
(*                                                                         *)
(* Text is modelled at the granularity the code works at: dates, ISO       *)
(* dates and HHMM stamps are tuples of one-character strings (the code     *)
(* slices and strips them); composed display texts are tuples of their     *)
(* pieces.  Numbers are integers; colorScale's floating point result is    *)
(* reproduced exactly for ranges (vmax - vmin) narrower than 30.          *)
(***************************************************************************)
EXTENDS Integers, Sequences, FiniteSets, TLC

(* ------------------------------ bounds -------------------------------- *)

\* Refresh runs started in one behaviour (boot's run included).
MaxRuns == 2

\* Longest times_utc list an index response carries.
MaxLen == 2

\* colorScale inputs of the pure-function specification lie in -MaxVal..MaxVal.
MaxVal == 3

(* --------------------------- text helpers ----------------------------- *)

\* String.prototype.slice(a, b) for 0 <= a <= b, on a tuple of characters.
Slice(s, a, b) ==
  LET hi == IF b < Len(s) THEN b ELSE Len(s)
  IN  IF a >= hi THEN << >> ELSE SubSeq(s, a + 1, hi)

RECURSIVE RemoveAll(_, _)
\* String.prototype.replaceAll(ch, "").
RemoveAll(s, ch) ==
  IF s = << >> THEN << >>
  ELSE IF Head(s) = ch THEN RemoveAll(Tail(s), ch)
       ELSE <<Head(s)>> \o RemoveAll(Tail(s), ch)

\* JavaScript null for the string-valued variable currentDate.
Null == <<"null">>

\* JavaScript truthiness of a string-or-null value.
Falsy(s) == s = Null \/ s = << >>

ymdToFolderNoStrip(dateStr) == IF Falsy(dateStr) THEN << >> ELSE dateStr

\* "YYYY-MM-DD" -> "YYYYMMDD"
ymdToFolder(dateStr) ==
  RemoveAll(IF Falsy(dateStr) THEN << >> ELSE dateStr, "-")

folderToISODateShortDay(ymd) ==
  Slice(ymd, 0, 4) \o <<"-">> \o Slice(ymd, 4, 6) \o <<"-">> \o Slice(ymd, 6, 7)

\* "YYYYMMDD" -> "YYYY-MM-DD"
folderToISODate(ymd) ==
  Slice(ymd, 0, 4) \o <<"-">> \o Slice(ymd, 4, 6) \o <<"-">> \o Slice(ymd, 6, 8)

\* String.prototype.toUpperCase on the layer identifiers.
toUpperCase(kind) ==
  CASE kind = "tec" -> "TEC"
    [] kind = "no2" -> "NO2"
    [] OTHER -> kind

(* ------------------------------ numbers ------------------------------- *)

\* A cell value as parsed from JSON: a number, null, or an absent field.
Num(n) == [t |-> "num", n |-> n]
JsNull == [t |-> "null", n |-> 0]
JsUndefined == [t |-> "undefined", n |-> 0]

\* Global isFinite(v): ToNumber(null) is 0, ToNumber(undefined) is NaN.
isFinite(v) == v.t # "undefined"

\* ToNumber for the values isFinite accepts.
ToNumber(v) == IF v.t = "num" THEN v.n ELSE 0

\* Number(v).toFixed(2) for integers, null and undefined.
toFixed2(v) == IF v.t = "undefined" THEN "NaN" ELSE ToString(ToNumber(v)) \o ".00"

Min(a, b) == IF a < b THEN a ELSE b
Max(a, b) == IF a > b THEN a ELSE b

RECURSIVE Gcd(_, _)
Gcd(a, b) == IF b = 0 THEN a ELSE Gcd(b, a % b)

\* Reduced fractions x = p/q, q < 30, at which 255 * (1 - x) is an
\* exact tie n + 1/2 but the double computed from the double x lies below it.
BlueTiesDown == { <<5, 6>>, <<9, 10>> }

\* Math.round(255 * p / q) for 0 <= p <= q: ties round up.
Round255(p, q) == (510 * p + q) \div (2 * q)

colorScaleSwapped(v, vmin, vmax) ==
  IF ~isFinite(v) THEN [r |-> 0, g |-> 0, b |-> 0, a |-> "0"]
  ELSE LET d0  == vmax - vmin
           d   == IF d0 = 0 THEN 1 ELSE d0
           n   == ToNumber(v) - vmin
           q   == IF d < 0 THEN -d ELSE d
           p0  == IF d < 0 THEN -n ELSE n
           p   == Max(0, Min(q, p0))
       IN  [r |-> Round255(q - p, q), g |-> 0, b |-> Round255(p, q), a |-> "0.55"]

\* colorScale(v, vmin, vmax): x = clamp((v - vmin) / (vmax - vmin || 1), 0, 1)
\* is the fraction p/q; r = round(255 x), b = round(255 (1 - x)).
colorScale(v, vmin, vmax) ==
  IF ~isFinite(v) THEN [r |-> 0, g |-> 0, b |-> 0, a |-> "0"]
  ELSE LET d0  == vmax - vmin
           d   == IF d0 = 0 THEN 1 ELSE d0
           n   == ToNumber(v) - vmin
           q   == IF d < 0 THEN -d ELSE d
           p0  == IF d < 0 THEN -n ELSE n
           p   == Max(0, Min(q, p0))
           g   == Gcd(q, p)
           low == <<p \div g, q \div g>> \in BlueTiesDown
       IN  [r |-> Round255(p, q),
            g |-> 0,
            b |-> Round255(q - p, q) - (IF low THEN 1 ELSE 0),
            a |-> "0.55"]

(* ------------------------- display texts ------------------------------ *)

\* `${hhmm.slice(0,2)}:${hhmm.slice(2,4)} UTC`
TimeLabelOf(hhmm) == Slice(hhmm, 0, 2) \o <<":">> \o Slice(hhmm, 2, 4) \o <<" UTC">>

NoTimeLabel == <<"--:-- UTC">>

LoadingStatus(kind, date) == <<"Loading ", toUpperCase(kind), " ", date, "...">>

NoTimesStatus(kind) == <<"No times in ", kind, "/index.json (yet)">>

OkStatus(updated) == <<"OK (updated: ", updated, ")">>

ErrorStatus(message) == <<"Error: ", message>>

MissingLegend == <<"Data missing or not generated yet.">>

(* --------------------------- the server ------------------------------- *)

Kinds == {"tec", "no2"}

D1 == <<"2","0","2","4","0","2","2","9">>

\* Folders a user can pick and the date latest.json can name.
Dates == {D1}
LatestDates == {D1}

\* new Date().toISOString() at boot.
ClockISO == <<"2","0","2","4","-","0","3","-","0","2","T","2","3",":","5","9",
              ":","5","9",".","0","0","0","Z">>

\* Values the date input can hold: cleared, or a picked day.
DateInputValues == {<< >>} \cup {folderToISODate(d) : d \in Dates}

AllTimes == << <<"0","0","0","0">>, <<"1","2","0","0">>, <<"1","8","0","0">>,
               <<"2","1","3","0">>, <<"2","3","0","0">> >>

TimesLists == {SubSeq(AllTimes, 1, n) : n \in 0..MaxLen}

\* What a fetch that does not deliver parsed JSON ends with: a non-ok HTTP
\* status, a body that is not JSON, or a transport failure.
Failures ==
  { [ok |-> FALSE, why |-> "http", code |-> 404],
    [ok |-> FALSE, why |-> "json", code |-> 200],
    [ok |-> FALSE, why |-> "network", code |-> 0] }

\* e.message of the error fetchJson ends with.
ErrMessage(f, url) ==
  CASE f.why = "http" -> <<"HTTP ", ToString(f.code), " ", url>>
    [] f.why = "json" -> <<"Unexpected token < in JSON at position 0">>
    [] OTHER          -> <<"Failed to fetch">>

LatestUrl == <<"./data/latest.json">>
IndexUrl(req) == <<"./data/", req.date, "/", req.kind, "/index.json">>
GridUrl(req) == <<"./data/", req.date, "/", req.kind, "/", req.hhmm, ".json">>

\* latest.json bodies: with and without the date field.
LatestBodies ==
  {[ok |-> TRUE, has |-> {"date"}, date |-> d] : d \in LatestDates}
    \cup {[ok |-> TRUE, has |-> {}, date |-> << >>]}

OptFields == {"cell", "range", "unit", "updated_utc"}

IndexBody(has, ts) ==
  [ok |-> TRUE, has |-> has, times_utc |-> ts,
   cell |-> [dlat |-> 1, dlon |-> 3], range |-> [vmin |-> 0, vmax |-> 10],
   unit |-> "TECU", updated_utc |-> "2024-03-01T00:10Z"]

\* index.json bodies: every times list with all optional fields, a one-entry
\* list with none of them, and a body without times_utc.
IndexBodies ==
  {IndexBody(OptFields \cup {"times_utc"}, ts) : ts \in TimesLists}
    \cup {IndexBody({"times_utc"}, <<Head(AllTimes)>>), IndexBody({}, << >>)}

Cell(lat, lon, val) == [lat |-> lat, lon |-> lon, val |-> val]

\* <HHMM>.json bodies: no cells field, no cells, and cells whose value is in
\* range, out of range, null or absent.
SnapshotBodies ==
  { [ok |-> TRUE, has |-> {}, cells |-> << >>],
    [ok |-> TRUE, has |-> {"cells"}, cells |-> << >>],
    [ok |-> TRUE, has |-> {"cells"},
     cells |-> <<Cell(0, 0, Num(5)), Cell(-90, 178, Num(12)), Cell(4, 6, JsNull),
                 Cell(8, 6, JsUndefined)>>] }

(* ------------------------------ state --------------------------------- *)

VARIABLES
  currentDate,   \* "YYYYMMDD", Null before boot has set it
  currentKind,   \* "tec" or "no2"
  times,         \* the times_utc list of the last index that arrived
  dateInput,     \* dateInput.value
  slider,        \* timeSlider: [min, max, value]
  timeLabel,     \* timeLabel.textContent
  status,        \* statusEl.textContent
  legend,        \* legendBody content
  gridLayer,     \* the rectangles of gridLayer, in the order added
  shown,         \* which snapshot request gridLayer was drawn from, by which run
  boot,          \* "latest" while boot awaits latest.json, then "done"
  todays,        \* today-click handlers awaiting latest.json
  runs,          \* refresh() activations awaiting a fetch, oldest first
  nRuns,         \* refresh() activations started so far
  probe          \* inputs and results of the pure-function specifications

vars == <<currentDate, currentKind, times, dateInput, slider, timeLabel, status,
          legend, gridLayer, shown, boot, todays, runs, nRuns, probe>>

\* timeSlider.value is a string: a decimal integer, empty, or something else.
SNum(n) == [txt |-> "num", n |-> n]
SEmpty == [txt |-> "empty", n |-> 0]
SJunk == [txt |-> "junk", n |-> 0]

NoShown == [drawn |-> FALSE, req |-> [date |-> << >>, kind |-> "", hhmm |-> << >>],
            by |-> 0, over |-> FALSE]

NoIndex == IndexBody({}, << >>)

NoColor == [r |-> 0, g |-> 0, b |-> 0, a |-> "0"]

\* probe while the page runs: no pure function is being exercised.
NoProbe == [v1 |-> 0, v2 |-> 0, vmin |-> 0, vmax |-> 0, applied |-> FALSE,
            out1 |-> NoColor, out2 |-> NoColor]

\* The slider as the page's markup leaves it: the code does not set it before
\* the first index arrives, so any value may be there.
InitSliderValues == {SNum(-1), SNum(MaxLen + 1), SEmpty, SJunk}

Init ==
  /\ currentDate = Null
  /\ currentKind = "tec"
  /\ times = << >>
  /\ dateInput = << >>
  /\ slider \in {[min |-> 0, max |-> 0, value |-> v] : v \in InitSliderValues}
  /\ timeLabel = << >>
  /\ status = << >>
  /\ legend = << >>
  /\ gridLayer = << >>
  /\ shown = NoShown
  /\ boot = "latest"
  /\ todays = 0
  /\ runs = << >>
  /\ nRuns = 0
  /\ probe = NoProbe

(* ------------------------------ drawGrid ------------------------------ *)

\* indexMeta?.<field> ?? <default>
OrDefault(idx, field, value, default) == IF field \in idx.has THEN value ELSE default

CellDlat(idx) == OrDefault(idx, "cell", idx.cell.dlat, 2)
CellDlon(idx) == OrDefault(idx, "cell", idx.cell.dlon, 2)
UnitOf(idx) == OrDefault(idx, "unit", idx.unit, "")
Vmin(idx) == OrDefault(idx, "range", idx.range.vmin, 0)
Vmax(idx) == OrDefault(idx, "range", idx.range.vmax, 1)

UpdatedOfNoDefault(idx) == IF "updated_utc" \in idx.has THEN idx.updated_utc ELSE ""

\* idx?.updated_utc || "unknown"
UpdatedOf(idx) ==
  IF "updated_utc" \in idx.has /\ idx.updated_utc # "" THEN idx.updated_utc ELSE "unknown"

RectOfSquare(c, idx) ==
  [sw        |-> <<c.lat, c.lon>>,
   ne        |-> <<c.lat + CellDlat(idx), c.lon + CellDlat(idx)>>,
   fillColor |-> colorScale(c.val, Vmin(idx), Vmax(idx)),
   tooltip   |-> <<toFixed2(c.val), " ", UnitOf(idx)>>]

\* The rectangle drawGrid adds for one cell.
RectOf(c, idx) ==
  [sw        |-> <<c.lat, c.lon>>,
   ne        |-> <<c.lat + CellDlat(idx), c.lon + CellDlon(idx)>>,
   fillColor |-> colorScale(c.val, Vmin(idx), Vmax(idx)),
   tooltip   |-> <<toFixed2(c.val), " ", UnitOf(idx)>>]

\* grid?.cells || []
CellsOf(grid) == IF "cells" \in grid.has THEN grid.cells ELSE << >>

RectsOfNoClear(grid, idx) ==
  gridLayer \o [j \in 1..Len(CellsOf(grid)) |-> RectOf(CellsOf(grid)[j], idx)]

\* The rectangles of gridLayer after drawGrid's loop over the cells.
RectsOf(grid, idx) == [j \in 1..Len(CellsOf(grid)) |-> RectOf(CellsOf(grid)[j], idx)]

\* legendBody.innerHTML as drawGrid writes it from the globals and the index.
LegendOf(kind, date, label, idx) ==
  <<"Layer:", toUpperCase(kind), "Date:", folderToISODate(date), "(UTC)",
    "Time:", label, "Range:", toFixed2(Num(Vmin(idx))), toFixed2(Num(Vmax(idx))),
    UnitOf(idx)>>

(* ------------------------------ refresh ------------------------------- *)

\* parseInt(timeSlider.value || "0", 10), then NaN replaced by 0.
ParsedSlider(value) == IF value.txt = "num" THEN value.n ELSE 0

ClampIndexOffByOne(value, len) == Max(0, Min(len, ParsedSlider(value)))

\* Lines 117-119: the index used for a times list of length len > 0.
ClampIndex(value, len) == Max(0, Min(len - 1, ParsedSlider(value)))

\* idx?.times_utc || []
TimesOf(idx) == IF "times_utc" \in idx.has THEN idx.times_utc ELSE << >>

Request(date, kind, hhmm) == [date |-> date, kind |-> kind, hhmm |-> hhmm]

\* A refresh() activation suspended at its first await.
NewRun(id, date, kind) ==
  [id |-> id, pc |-> "index", req |-> Request(date, kind, << >>), idx |-> NoIndex]

RemoveAt(seq, k) == SubSeq(seq, 1, k - 1) \o SubSeq(seq, k + 1, Len(seq))

\* New user actions are taken while fewer than MaxRuns runs were or will be started.
Budget == nRuns + todays + (IF boot = "latest" THEN 1 ELSE 0) < MaxRuns

RefreshStartCancelling(date, kind) ==
  IF Falsy(date)
  THEN UNCHANGED <<status, runs, nRuns>>
  ELSE /\ status' = LoadingStatus(kind, date)
       /\ runs' = <<NewRun(nRuns + 1, date, kind)>>
       /\ nRuns' = nRuns + 1

RefreshStartUnguarded(date, kind) ==
  /\ status' = LoadingStatus(kind, date)
  /\ runs' = Append(runs, NewRun(nRuns + 1, date, kind))
  /\ nRuns' = nRuns + 1

\* refresh() up to its first await, called with the globals as just set.
RefreshStart(date, kind) ==
  IF Falsy(date)
  THEN UNCHANGED <<status, runs, nRuns>>
  ELSE /\ status' = LoadingStatus(kind, date)
       /\ runs' = Append(runs, NewRun(nRuns + 1, date, kind))
       /\ nRuns' = nRuns + 1

CatchKeepingLegend(k, message) ==
  /\ gridLayer' = << >>
  /\ shown' = NoShown
  /\ status' = ErrorStatus(message)
  /\ legend' = legend
  /\ runs' = RemoveAt(runs, k)

\* The catch block of refresh(), ending run k.
Catch(k, message) ==
  /\ gridLayer' = << >>
  /\ shown' = NoShown
  /\ status' = ErrorStatus(message)
  /\ legend' = MissingLegend
  /\ runs' = RemoveAt(runs, k)

IndexFailsClearingDate(k, f) ==
  /\ runs[k].pc = "index"
  /\ Catch(k, ErrMessage(f, IndexUrl(runs[k].req)))
  /\ currentDate' = << >>
  /\ UNCHANGED <<currentKind, times, dateInput, slider, timeLabel, boot, todays, nRuns, probe>>

\* Run k's index fetch fails.
IndexFails(k, f) ==
  /\ runs[k].pc = "index"
  /\ Catch(k, ErrMessage(f, IndexUrl(runs[k].req)))
  /\ UNCHANGED <<currentDate, currentKind, times, dateInput, slider, timeLabel,
                 boot, todays, nRuns, probe>>

IndexEmptyKeepingLabel(k, idx) ==
  /\ runs[k].pc = "index"
  /\ TimesOf(idx) = << >>
  /\ times' = TimesOf(idx)
  /\ slider' = [min |-> 0, max |-> 0, value |-> SNum(0)]
  /\ gridLayer' = << >>
  /\ shown' = NoShown
  /\ status' = NoTimesStatus(currentKind)
  /\ runs' = RemoveAt(runs, k)
  /\ UNCHANGED <<currentDate, currentKind, dateInput, timeLabel, legend, boot, todays,
                 nRuns, probe>>

IndexEmptyStillFetching(k, idx) ==
  /\ runs[k].pc = "index"
  /\ TimesOf(idx) = << >>
  /\ times' = TimesOf(idx)
  /\ slider' = [min |-> 0, max |-> 0, value |-> SNum(0)]
  /\ timeLabel' = NoTimeLabel
  /\ gridLayer' = << >>
  /\ shown' = NoShown
  /\ status' = NoTimesStatus(currentKind)
  /\ runs' = [runs EXCEPT ![k].pc = "grid"]
  /\ UNCHANGED <<currentDate, currentKind, dateInput, legend, boot, todays, nRuns, probe>>

\* Run k's index arrives with no times: lines 106-113.
IndexEmpty(k, idx) ==
  /\ runs[k].pc = "index"
  /\ TimesOf(idx) = << >>
  /\ times' = TimesOf(idx)
  /\ slider' = [min |-> 0, max |-> 0, value |-> SNum(0)]
  /\ timeLabel' = NoTimeLabel
  /\ gridLayer' = << >>
  /\ shown' = NoShown
  /\ status' = NoTimesStatus(currentKind)
  /\ runs' = RemoveAt(runs, k)
  /\ UNCHANGED <<currentDate, currentKind, dateInput, legend, boot, todays, nRuns, probe>>

\* Run k's index arrives with times: lines 106 and 115-125, up to the await
\* of the snapshot fetch.  times[i] of an index outside the list is
\* undefined, and hhmm.slice then throws into the catch block.
IndexTimes(k, idx) ==
  /\ runs[k].pc = "index"
  /\ TimesOf(idx) # << >>
  /\ LET ts == TimesOf(idx)
         i  == ClampIndex(slider.value, Len(ts))
     IN  /\ times' = ts
         /\ slider' = [min |-> 0, max |-> Len(ts) - 1, value |-> SNum(i)]
         /\ IF i \in 0..(Len(ts) - 1)
            THEN /\ timeLabel' = TimeLabelOf(ts[i + 1])
                 /\ runs' = [runs EXCEPT ![k] =
                               [id |-> @.id, pc |-> "grid",
                                req |-> Request(currentDate, currentKind, ts[i + 1]),
                                idx |-> idx]]
                 /\ UNCHANGED <<status, legend, gridLayer, shown>>
            ELSE /\ Catch(k, <<"Cannot read properties of undefined (reading 'slice')">>)
                 /\ UNCHANGED timeLabel
  /\ UNCHANGED <<currentDate, currentKind, dateInput, boot, todays, nRuns, probe>>

\* Run k's snapshot fetch fails.
GridFails(k, f) ==
  /\ runs[k].pc = "grid"
  /\ Catch(k, ErrMessage(f, GridUrl(runs[k].req)))
  /\ UNCHANGED <<currentDate, currentKind, times, dateInput, slider, timeLabel,
                 boot, todays, nRuns, probe>>

GridDrawnKeepingStatus(k, grid) ==
  /\ runs[k].pc = "grid"
  /\ gridLayer' = RectsOf(grid, runs[k].idx)
  /\ shown' = [drawn |-> TRUE, req |-> runs[k].req, by |-> runs[k].id,
               over |-> shown.drawn /\ shown.by > runs[k].id]
  /\ legend' = LegendOf(currentKind, currentDate, timeLabel, runs[k].idx)
  /\ runs' = RemoveAt(runs, k)
  /\ UNCHANGED <<currentDate, currentKind, times, dateInput, slider, timeLabel,
                 status, boot, todays, nRuns, probe>>

\* Run k's snapshot arrives: drawGrid(grid, idx) and the OK status.
GridDrawn(k, grid) ==
  /\ runs[k].pc = "grid"
  /\ gridLayer' = RectsOf(grid, runs[k].idx)
  /\ shown' = [drawn |-> TRUE, req |-> runs[k].req, by |-> runs[k].id,
               over |-> shown.drawn /\ shown.by > runs[k].id]
  /\ legend' = LegendOf(currentKind, currentDate, timeLabel, runs[k].idx)
  /\ status' = OkStatus(UpdatedOf(runs[k].idx))
  /\ runs' = RemoveAt(runs, k)
  /\ UNCHANGED <<currentDate, currentKind, times, dateInput, slider, timeLabel,
                 boot, todays, nRuns, probe>>

(* --------------------------- latest.json ------------------------------ *)

\* loadLatestDate() fails on any fetch failure and on a body without date.
LatestThrows(resp) ==
  IF resp.ok THEN ("date" \notin resp.has \/ Falsy(resp.date)) ELSE TRUE

\* boot: setDateFromLatest() succeeded, then refresh().
BootLatest(resp) ==
  /\ boot = "latest"
  /\ ~LatestThrows(resp)
  /\ boot' = "done"
  /\ currentDate' = resp.date
  /\ dateInput' = folderToISODate(resp.date)
  /\ RefreshStart(currentDate', currentKind)
  /\ UNCHANGED <<currentKind, times, slider, timeLabel, legend, gridLayer, shown,
                 todays, probe>>

\* boot: setDateFromLatest() threw; fall back to the clock's date, then refresh().
BootFallback(resp) ==
  /\ boot = "latest"
  /\ LatestThrows(resp)
  /\ boot' = "done"
  /\ dateInput' = Slice(ClockISO, 0, 10)
  /\ currentDate' = ymdToFolder(dateInput')
  /\ RefreshStart(currentDate', currentKind)
  /\ UNCHANGED <<currentKind, times, slider, timeLabel, legend, gridLayer, shown,
                 todays, probe>>

(* --------------------------- user actions ----------------------------- *)

\* dateInput 'change'.
DateChange(v) ==
  /\ Budget
  /\ dateInput' = v
  /\ currentDate' = ymdToFolder(v)
  /\ slider' = [slider EXCEPT !.value = SNum(0)]
  /\ RefreshStart(currentDate', currentKind)
  /\ UNCHANGED <<currentKind, times, timeLabel, legend, gridLayer, shown, boot,
                 todays, probe>>

KindChangeNoReset(kind) ==
  /\ Budget
  /\ currentKind' = kind
  /\ RefreshStart(currentDate, currentKind')
  /\ UNCHANGED <<currentDate, times, dateInput, slider, timeLabel, legend, gridLayer,
                 shown, boot, todays, probe>>

\* layerSelect 'change'.
KindChange(kind) ==
  /\ Budget
  /\ currentKind' = kind
  /\ slider' = [slider EXCEPT !.value = SNum(0)]
  /\ RefreshStart(currentDate, currentKind')
  /\ UNCHANGED <<currentDate, times, dateInput, timeLabel, legend, gridLayer, shown,
                 boot, todays, probe>>

\* timeSlider 'input': the user moved the slider to n, within its min..max.
SliderInput(n) ==
  /\ Budget
  /\ n \in slider.min..slider.max
  /\ slider' = [slider EXCEPT !.value = SNum(n)]
  /\ RefreshStart(currentDate, currentKind)
  /\ UNCHANGED <<currentDate, currentKind, times, dateInput, timeLabel, legend,
                 gridLayer, shown, boot, todays, probe>>

\* todayBtn 'click', up to the await of latest.json.
TodayClick ==
  /\ Budget
  /\ todays' = todays + 1
  /\ UNCHANGED <<currentDate, currentKind, times, dateInput, slider, timeLabel,
                 status, legend, gridLayer, shown, boot, runs, nRuns, probe>>

\* todayBtn 'click' after setDateFromLatest() succeeded.
TodayLatest(resp) ==
  /\ todays > 0
  /\ ~LatestThrows(resp)
  /\ todays' = todays - 1
  /\ currentDate' = resp.date
  /\ dateInput' = folderToISODate(resp.date)
  /\ slider' = [slider EXCEPT !.value = SNum(0)]
  /\ RefreshStart(currentDate', currentKind)
  /\ UNCHANGED <<currentKind, times, timeLabel, legend, gridLayer, shown, boot, probe>>

\* todayBtn 'click' when setDateFromLatest() threw: the handler has no catch.
TodayLatestThrows(resp) ==
  /\ todays > 0
  /\ LatestThrows(resp)
  /\ todays' = todays - 1
  /\ UNCHANGED <<currentDate, currentKind, times, dateInput, slider, timeLabel,
                 status, legend, gridLayer, shown, boot, runs, nRuns, probe>>

(* --------------------------- specification ---------------------------- *)

Next ==
  \/ \E resp \in LatestBodies : BootLatest(resp)
  \/ \E resp \in LatestBodies : BootFallback(resp)
  \/ \E resp \in Failures : BootFallback(resp)
  \/ \E v \in DateInputValues : DateChange(v)
  \/ \E kind \in Kinds : KindChange(kind)
  \/ \E n \in 0..MaxLen : SliderInput(n)
  \/ TodayClick
  \/ \E resp \in LatestBodies : TodayLatest(resp)
  \/ \E resp \in LatestBodies : TodayLatestThrows(resp)
  \/ \E resp \in Failures : TodayLatestThrows(resp)
  \/ \E k \in 1..Len(runs), f \in Failures : IndexFails(k, f)
  \/ \E k \in 1..Len(runs), idx \in IndexBodies : IndexEmpty(k, idx)
  \/ \E k \in 1..Len(runs), idx \in IndexBodies : IndexTimes(k, idx)
  \/ \E k \in 1..Len(runs), f \in Failures : GridFails(k, f)
  \/ \E k \in 1..Len(runs), grid \in SnapshotBodies : GridDrawn(k, grid)

Spec == Init /\ [][Next]_vars

\* A fetch of the run with this id resolves or rejects.
FetchSettles(id) ==
  \E k \in 1..Len(runs) :
    /\ runs[k].id = id
    /\ \/ \E f \in Failures : IndexFails(k, f)
       \/ \E idx \in IndexBodies : IndexEmpty(k, idx)
       \/ \E idx \in IndexBodies : IndexTimes(k, idx)
       \/ \E f \in Failures : GridFails(k, f)
       \/ \E grid \in SnapshotBodies : GridDrawn(k, grid)

\* Spec with every fetch of every run eventually resolving or rejecting.
SpecLive == Init /\ [][Next]_vars /\ \A id \in 1..MaxRuns : WF_vars(FetchSettles(id))

(* ------------- index responses lacking optional fields ---------------- *)

\* index.json bodies with every subset of the optional fields, for every
\* times list.
OptIndexBodies ==
  {IndexBody(h \cup {"times_utc"}, ts) : h \in SUBSET OptFields, ts \in TimesLists}

\* The page against a server whose index responses lack optional fields: boot,
\* kind changes and the completions of the fetches.
NextOpt ==
  \/ \E resp \in LatestBodies : BootLatest(resp)
  \/ \E resp \in Failures : BootFallback(resp)
  \/ \E kind \in Kinds : KindChange(kind)
  \/ \E k \in 1..Len(runs), f \in Failures : IndexFails(k, f)
  \/ \E k \in 1..Len(runs), idx \in OptIndexBodies : IndexEmpty(k, idx)
  \/ \E k \in 1..Len(runs), idx \in OptIndexBodies : IndexTimes(k, idx)
  \/ \E k \in 1..Len(runs), f \in Failures : GridFails(k, f)
  \/ \E k \in 1..Len(runs), grid \in SnapshotBodies : GridDrawn(k, grid)

SpecOpt == Init /\ [][NextOpt]_vars

(* ------------- user actions taken only while no run is in flight ------- *)

\* index.json bodies of the sequential specification: those of Spec and one
\* whose times list begins at another time, as another day's or layer's does.
SeqIndexBodies ==
  IndexBodies \cup {IndexBody(OptFields \cup {"times_utc"}, SubSeq(AllTimes, 2, 3))}

\* No refresh() activation is awaiting a fetch.
NoRunInFlight == runs = << >>

\* The page with a user who acts only while no run is in flight; boot, the
\* continuation of a today click and the completions of fetches come when
\* they come.
NextSeq ==
  \/ \E resp \in LatestBodies : BootLatest(resp)
  \/ \E resp \in LatestBodies : BootFallback(resp)
  \/ \E resp \in Failures : BootFallback(resp)
  \/ NoRunInFlight /\ \E v \in DateInputValues : DateChange(v)
  \/ NoRunInFlight /\ \E kind \in Kinds : KindChange(kind)
  \/ NoRunInFlight /\ \E n \in 0..MaxLen : SliderInput(n)
  \/ NoRunInFlight /\ TodayClick
  \/ \E resp \in LatestBodies : TodayLatest(resp)
  \/ \E resp \in LatestBodies : TodayLatestThrows(resp)
  \/ \E resp \in Failures : TodayLatestThrows(resp)
  \/ \E k \in 1..Len(runs), f \in Failures : IndexFails(k, f)
  \/ \E k \in 1..Len(runs), idx \in SeqIndexBodies : IndexEmpty(k, idx)
  \/ \E k \in 1..Len(runs), idx \in SeqIndexBodies : IndexTimes(k, idx)
  \/ \E k \in 1..Len(runs), f \in Failures : GridFails(k, f)
  \/ \E k \in 1..Len(runs), grid \in SnapshotBodies : GridDrawn(k, grid)

SpecSeq == Init /\ [][NextSeq]_vars

(* -------------------- colorScale as a pure function -------------------- *)

ProbeValues == (-MaxVal)..MaxVal

\* Two values and a range, not yet coloured.
InitColor ==
  /\ currentDate = Null
  /\ currentKind = "tec"
  /\ times = << >>
  /\ dateInput = << >>
  /\ slider = [min |-> 0, max |-> 0, value |-> SNum(0)]
  /\ timeLabel = << >>
  /\ status = << >>
  /\ legend = << >>
  /\ gridLayer = << >>
  /\ shown = NoShown
  /\ boot = "latest"
  /\ todays = 0
  /\ runs = << >>
  /\ nRuns = 0
  /\ probe \in {[v1 |-> a, v2 |-> b, vmin |-> lo, vmax |-> hi, applied |-> FALSE,
                 out1 |-> NoColor, out2 |-> NoColor] :
                a \in ProbeValues, b \in ProbeValues, lo \in ProbeValues, hi \in ProbeValues}

\* Both values are coloured against the range.
ApplyColorScale ==
  /\ ~probe.applied
  /\ probe' = [probe EXCEPT !.applied = TRUE,
                            !.out1 = colorScale(Num(probe.v1), probe.vmin, probe.vmax),
                            !.out2 = colorScale(Num(probe.v2), probe.vmin, probe.vmax)]
  /\ UNCHANGED <<currentDate, currentKind, times, dateInput, slider, timeLabel, status,
                 legend, gridLayer, shown, boot, todays, runs, nRuns>>

NextColor == ApplyColorScale

SpecColor == InitColor /\ [][NextColor]_vars

(* ----------------- the date conversions as pure functions -------------- *)

\* Characters the probed date strings are built from.
DateDigits == {"0", "1", "9"}

\* Every string of n characters of DateDigits.
RECURSIVE DigitStrings(_)
DigitStrings(n) ==
  IF n = 0 THEN {<< >>}
  ELSE {<<c>> \o t : c \in DateDigits, t \in DigitStrings(n - 1)}

\* Folder names: eight digits, and strings that are not folder names.
FolderInputs ==
  DigitStrings(8)
    \cup {<<"2","0","2","4","0","2","9">>, <<"2","0","2","4","0","2","2","9","0">>,
          <<"2","0","2","4","-","0","2","9">>, << >>}

\* Date input values: YYYY-MM-DD, and strings that are not of that form.
ISOInputs ==
  {Slice(x, 0, 4) \o <<"-">> \o Slice(x, 4, 6) \o <<"-">> \o Slice(x, 6, 8) :
     x \in DigitStrings(8)}
    \cup {<<"2","0","2","4","-","2","-","9">>, <<"2","0","2","4","0","2","2","9">>,
          <<"2","0","2","4","/","0","2","/","2","9">>, << >>}

\* A string of one kind, not yet converted.
InitDate ==
  /\ currentDate = Null
  /\ currentKind = "tec"
  /\ times = << >>
  /\ dateInput = << >>
  /\ slider = [min |-> 0, max |-> 0, value |-> SNum(0)]
  /\ timeLabel = << >>
  /\ status = << >>
  /\ legend = << >>
  /\ gridLayer = << >>
  /\ shown = NoShown
  /\ boot = "latest"
  /\ todays = 0
  /\ runs = << >>
  /\ nRuns = 0
  /\ probe \in {[from |-> "folder", x |-> x, applied |-> FALSE, mid |-> << >>,
                 out |-> << >>] : x \in FolderInputs}
            \cup {[from |-> "iso", x |-> y, applied |-> FALSE, mid |-> << >>,
                   out |-> << >>] : y \in ISOInputs}

\* ymdToFolder(folderToISODate(x))
FolderRoundTrip ==
  /\ probe.from = "folder"
  /\ ~probe.applied
  /\ probe' = [probe EXCEPT !.applied = TRUE,
                            !.mid = folderToISODate(probe.x),
                            !.out = ymdToFolder(folderToISODate(probe.x))]
  /\ UNCHANGED <<currentDate, currentKind, times, dateInput, slider, timeLabel, status,
                 legend, gridLayer, shown, boot, todays, runs, nRuns>>

\* folderToISODate(ymdToFolder(y))
ISORoundTrip ==
  /\ probe.from = "iso"
  /\ ~probe.applied
  /\ probe' = [probe EXCEPT !.applied = TRUE,
                            !.mid = ymdToFolder(probe.x),
                            !.out = folderToISODate(ymdToFolder(probe.x))]
  /\ UNCHANGED <<currentDate, currentKind, times, dateInput, slider, timeLabel, status,
                 legend, gridLayer, shown, boot, todays, runs, nRuns>>

NextDate == FolderRoundTrip \/ ISORoundTrip

SpecDate == InitDate /\ [][NextDate]_vars

(* ------------------------------- claims -------------------------------- *)

\* The index the claims expect for a prior slider value and a list of len > 0
\* entries: the value if it is a number in range, the nearest end if it is a
\* number out of range, 0 if it is no number.
ExpectedIndex(value, len) ==
  IF value.txt # "num" THEN 0
  ELSE IF value.n < 0 THEN 0
  ELSE IF value.n > len - 1 THEN len - 1
  ELSE value.n

C1_InRange ==
  times # << >> =>
    /\ slider.value.txt = "num"
    /\ slider.value.n >= 0
    /\ slider.value.n <= Len(times) - 1

C1_IndexStep ==
  /\ \A k \in 1..Len(runs) : \A idx \in IndexBodies :
       IndexTimes(k, idx) => (Len(runs') = Len(runs) /\ runs'[k].pc = "grid")
  /\ \A k \in 1..Len(runs) :
       (/\ runs[k].pc = "index"
        /\ Len(runs') >= k
        /\ runs'[k].id = runs[k].id
        /\ runs'[k].pc = "grid")
       => LET i == ExpectedIndex(slider.value, Len(times'))
          IN  /\ times' # << >>
              /\ i \in 0..(Len(times') - 1)
              /\ slider' = [min |-> 0, max |-> Len(times') - 1, value |-> SNum(i)]
              /\ runs'[k].req.hhmm = times'[i + 1]
              /\ Len(runs'[k].req.hhmm) = 4

\* C1: a run whose index arrives with times uses the prior slider value
\* clamped into 0..len(times)-1, writes it back to the slider and requests
\* the timestamp at that index; and whenever times is non-empty the slider
\* value lies in 0..len(times)-1.
C1_Clamped == []C1_InRange /\ [][C1_IndexStep]_vars

\* The boot run found two or more times with the slider still as the markup
\* left it, above every index: it was clamped to the last one.
C1_Witness ==
  /\ nRuns = 1
  /\ Len(runs) = 1
  /\ runs[1].pc = "grid"
  /\ Len(times) >= 2
  /\ slider.value = SNum(Len(times) - 1)
  /\ runs[1].req.hhmm = times[Len(times)]

IsDrawnLegend(l) == Len(l) > 1

\* C2: every run that ends without drawing (index failure, no times, snapshot
\* failure) leaves no rectangles and no legend of an earlier render.
C2_ClearedOnStop ==
  [][(/\ Len(runs') < Len(runs)
      /\ Len(status') >= 1
      /\ status'[1] \in {"Error: ", "No times in "})
     => (gridLayer' = << >> /\ ~IsDrawnLegend(legend'))]_vars

\* C3: when a run's index fetch fails the grid is cleared, the status is
\* "Error: " followed by the failure's reason, the legend is the "data
\* missing" text, and the run ends without asking for a snapshot.
C3_IndexFailure ==
  [][\A k \in 1..Len(runs) : \A f \in Failures :
       IndexFails(k, f) =>
         /\ gridLayer' = << >>
         /\ Len(status') = 2
         /\ status'[1] = "Error: "
         /\ Len(status'[2]) >= 1
         /\ (f.why = "http" =>
               status'[2] = <<"HTTP ", "404", " ",
                              <<"./data/", runs[k].req.date, "/", runs[k].req.kind,
                                "/index.json">> >>)
         /\ legend' = <<"Data missing or not generated yet.">>
         /\ Len(runs') = Len(runs) - 1
         /\ \A j \in 1..Len(runs') : \E m \in 1..Len(runs) : m # k /\ runs'[j] = runs[m]
    ]_vars

\* An index request answered 404 has ended its run in the error display.
C3_Witness ==
  /\ Len(status) = 2
  /\ status[1] = "Error: "
  /\ Len(status[2]) = 4
  /\ status[2][2] = "404"
  /\ Len(status[2][4]) = 5
  /\ gridLayer = << >>
  /\ legend = MissingLegend
  /\ runs = << >>
  /\ nRuns >= 1

ErrorDisplayed == gridLayer = << >> /\ Len(status) = 2 /\ status[1] = "Error: "

\* C4: every fetch failure, of latest.json, an index or a snapshot, at boot or
\* in a user's action, is caught and shown as a cleared grid and an error
\* status (at boot: answered by the fallback date), and the selection stays
\* valid.
C4_AllFailuresCaught ==
  [][/\ \A f \in Failures :
          /\ \A k \in 1..Len(runs) : (IndexFails(k, f) \/ GridFails(k, f)) => ErrorDisplayed'
          /\ TodayLatestThrows(f) => ErrorDisplayed'
          /\ BootFallback(f) => ~Falsy(currentDate')
     /\ currentKind' \in Kinds
    ]_vars

\* C5: a trigger with a date set adds one run of its own and leaves every run
\* in flight as it was; no run is dropped or merged.
C5_OwnRun ==
  [][((\E v \in DateInputValues : DateChange(v))
        \/ (\E kind \in Kinds : KindChange(kind))
        \/ (\E n \in 0..MaxLen : SliderInput(n))
        \/ (\E resp \in LatestBodies : TodayLatest(resp) \/ BootLatest(resp) \/ BootFallback(resp))
        \/ (\E f \in Failures : BootFallback(f)))
     => \/ Falsy(currentDate') /\ runs' = runs
        \/ /\ ~Falsy(currentDate')
           /\ Len(runs') = Len(runs) + 1
           /\ SubSeq(runs', 1, Len(runs)) = runs
           /\ runs'[Len(runs')].pc = "index"
           /\ runs'[Len(runs')].req = Request(currentDate', currentKind', << >>)
           /\ \A j \in 1..Len(runs) : runs'[Len(runs')].id > runs[j].id
    ]_vars

\* An older run drew after a newer one had drawn, no run is in flight, and the
\* grid shown is not the snapshot of the current date, kind and slider.
C5_Witness ==
  /\ runs = << >>
  /\ shown.drawn
  /\ shown.over
  /\ ~Falsy(currentDate)
  /\ times # << >>
  /\ slider.value.txt = "num"
  /\ slider.value.n \in 0..(Len(times) - 1)
  /\ shown.req # Request(currentDate, currentKind, times[slider.value.n + 1])

\* C6: a run whose index arrives without times ends in the empty display: grid
\* cleared, placeholder time label, slider at 0/0/0, the "No times" status, no
\* snapshot request; a run whose index has times makes times non-empty again.
C6_EmptyIsValid ==
  [][\A k \in 1..Len(runs) : \A idx \in IndexBodies :
       /\ IndexEmpty(k, idx) =>
            /\ times' = << >>
            /\ gridLayer' = << >>
            /\ timeLabel' = <<"--:-- UTC">>
            /\ slider' = [min |-> 0, max |-> 0, value |-> SNum(0)]
            /\ Len(status') = 3
            /\ status'[1] = "No times in "
            /\ Len(runs') = Len(runs) - 1
            /\ \A j \in 1..Len(runs') : runs'[j].id # runs[k].id
       /\ IndexTimes(k, idx) =>
            /\ times' = idx.times_utc
            /\ times' # << >>
            /\ slider'.max = Len(times') - 1
    ]_vars

\* One run has ended with "No times" and a run that was started later has
\* since received times.
C6_Witness ==
  /\ Len(status) = 3
  /\ status[1] = "No times in "
  /\ times # << >>
  /\ Len(runs) = 1
  /\ runs[1].pc = "grid"
  /\ runs[1].id = nRuns
  /\ nRuns >= 2

\* C7: when a run's snapshot arrives, the grid holds exactly one rectangle per
\* cell, from [lat, lon] to [lat + dlat, lon + dlon] with the index's cell size,
\* filled with colorScale(val, vmin, vmax) for the index's range and labelled
\* with the value to two decimals and the unit; the legend names kind, date,
\* time label and range with unit; the status is "OK" with the index's
\* updated_utc.
C7_Drawn ==
  [][\A k \in 1..Len(runs) : \A grid \in SnapshotBodies :
       (shown'.drawn /\ shown'.by = runs[k].id /\ GridDrawn(k, grid)) =>
         LET idx   == runs[k].idx
             cells == IF "cells" \in grid.has THEN grid.cells ELSE << >>
             dlat  == IF "cell" \in idx.has THEN idx.cell.dlat ELSE 2
             dlon  == IF "cell" \in idx.has THEN idx.cell.dlon ELSE 2
             vmin  == IF "range" \in idx.has THEN idx.range.vmin ELSE 0
             vmax  == IF "range" \in idx.has THEN idx.range.vmax ELSE 1
             unit  == IF "unit" \in idx.has THEN idx.unit ELSE ""
             prov  == IF "updated_utc" \in idx.has THEN idx.updated_utc ELSE "unknown"
         IN  /\ Len(gridLayer') = Len(cells)
             /\ \A j \in 1..Len(cells) :
                  /\ gridLayer'[j].sw = <<cells[j].lat, cells[j].lon>>
                  /\ gridLayer'[j].ne = <<cells[j].lat + dlat, cells[j].lon + dlon>>
                  /\ gridLayer'[j].fillColor = colorScale(cells[j].val, vmin, vmax)
                  /\ gridLayer'[j].tooltip[2] = " "
                  /\ gridLayer'[j].tooltip[3] = unit
                  /\ (cells[j].val.t = "num" =>
                        gridLayer'[j].tooltip[1] = ToString(cells[j].val.n) \o ".00")
             /\ legend' = <<"Layer:", IF currentKind = "tec" THEN "TEC" ELSE "NO2",
                            "Date:", folderToISODate(currentDate), "(UTC)",
                            "Time:", timeLabel, "Range:",
                            ToString(vmin) \o ".00", ToString(vmax) \o ".00", unit>>
             /\ status' = <<"OK (updated: ", prov, ")">>
    ]_vars

\* The grid of the four-cell snapshot drawn with the full index: the first
\* cell, value 5 in the range 0..10, lies halfway between blue and red.
C7_Witness ==
  /\ shown.drawn
  /\ Len(gridLayer) = 4
  /\ gridLayer[1] = [sw |-> <<0, 0>>, ne |-> <<1, 3>>,
                     fillColor |-> [r |-> 128, g |-> 0, b |-> 128, a |-> "0.55"],
                     tooltip |-> <<"5.00", " ", "TECU">>]
  /\ gridLayer[2].fillColor = [r |-> 255, g |-> 0, b |-> 0, a |-> "0.55"]
  /\ status = <<"OK (updated: ", "2024-03-01T00:10Z", ")">>
  /\ Len(legend) = 11

FallbackDate == <<"2","0","2","4","0","3","0","2">>
FallbackISO == <<"2","0","2","4","-","0","3","-","0","2">>

C8_Fallen ==
  /\ boot' = "done"
  /\ currentDate' = FallbackDate
  /\ dateInput' = FallbackISO
  /\ Len(runs') = Len(runs) + 1
  /\ runs'[Len(runs')].pc = "index"
  /\ runs'[Len(runs')].req = Request(FallbackDate, currentKind, << >>)
  /\ status'[1] = "Loading "

\* C8: when latest.json fails at boot (fetch failure or no date field), boot
\* ends normally with the clock's UTC date as currentDate (YYYYMMDD) and in
\* the date input (YYYY-MM-DD), and a refresh run is started for that date.
C8_BootFallback ==
  [][/\ \A f \in Failures : BootFallback(f) => C8_Fallen
     /\ \A body \in LatestBodies : BootFallback(body) => C8_Fallen
    ]_vars

\* Boot has fallen back: the clock's date is one neither latest.json nor the
\* date input can yield.
C8_Witness ==
  /\ boot = "done"
  /\ currentDate = FallbackDate
  /\ dateInput = FallbackISO
  /\ \E j \in 1..Len(runs) : runs[j].req.date = FallbackDate

\* C9: a date change sets currentDate to the picked day and the slider value
\* to "0" and keeps the kind; a kind change sets currentKind and the slider
\* value to "0" and keeps the date; the run the action starts is still at its
\* index fetch, so it reads the slider only after the reset.
C9_Reset ==
  [][/\ \A v \in DateInputValues :
          DateChange(v) =>
            /\ currentDate' = (IF v = << >> THEN << >>
                               ELSE <<v[1], v[2], v[3], v[4], v[6], v[7], v[9], v[10]>>)
            /\ slider'.value = SNum(0)
            /\ currentKind' = currentKind
            /\ (runs' # runs => runs'[Len(runs')].pc = "index")
     /\ \A kind \in Kinds :
          KindChange(kind) =>
            /\ currentKind' = kind
            /\ slider'.value = SNum(0)
            /\ currentDate' = currentDate
            /\ (runs' # runs => runs'[Len(runs')].pc = "index")
    ]_vars

\* After a kind change to no2 the slider is at 0 while the time label still
\* shows the second timestamp, where the slider stood before.
C9_Witness ==
  /\ currentKind = "no2"
  /\ Len(times) >= 2
  /\ timeLabel = TimeLabelOf(times[2])
  /\ slider.value = SNum(0)
  /\ \E j \in 1..Len(runs) : runs[j].pc = "index" /\ runs[j].req.kind = "no2"

\* C10 as claimed: for every range with vmin # vmax, in either order, red
\* does not decrease and blue does not increase as the value increases.
C10_MonotonicAnyOrder ==
  (probe.applied /\ probe.vmin # probe.vmax /\ probe.v1 <= probe.v2)
    => (probe.out1.r <= probe.out2.r /\ probe.out1.b >= probe.out2.b)

\* C10 amended: for every range with vmin < vmax, red does not decrease and
\* blue does not increase as the value increases.
C10_MonotonicAscending ==
  (probe.applied /\ probe.vmin < probe.vmax /\ probe.v1 <= probe.v2)
    => (probe.out1.r <= probe.out2.r /\ probe.out1.b >= probe.out2.b)

\* Two values inside an ascending range: more red and less blue for the larger.
C10_Witness ==
  /\ probe.applied
  /\ probe.vmin < probe.v1
  /\ probe.v1 < probe.v2
  /\ probe.v2 < probe.vmax
  /\ probe.out1.r < probe.out2.r
  /\ probe.out1.b > probe.out2.b

\* C11: every cell whose value is missing (null or absent: JSON holds no NaN)
\* is drawn fully transparent, alpha 0, whatever the index's range is.
C11_MissingIsTransparent ==
  [][\A k \in 1..Len(runs) : \A grid \in SnapshotBodies :
       (shown'.drawn /\ shown'.by = runs[k].id /\ GridDrawn(k, grid)) =>
         \A j \in 1..Len(CellsOf(grid)) :
           CellsOf(grid)[j].val.t # "num" => gridLayer'[j].fillColor.a = "0"
    ]_vars

IsDigit(c) == c \in {"0", "1", "2", "3", "4", "5", "6", "7", "8", "9"}

WellFormedFolder(x) == Len(x) = 8 /\ \A j \in 1..8 : IsDigit(x[j])

WellFormedISO(y) ==
  /\ Len(y) = 10
  /\ y[5] = "-"
  /\ y[8] = "-"
  /\ \A j \in {1, 2, 3, 4, 6, 7, 9, 10} : IsDigit(y[j])

\* C12: for every eight-digit YYYYMMDD string x, folderToISODate gives the
\* same digits as YYYY-MM-DD and ymdToFolder of that gives x back; for every
\* YYYY-MM-DD string y, ymdToFolder gives the same digits without hyphens and
\* folderToISODate of that gives y back.
C12_RoundTrip ==
  /\ (probe.applied /\ probe.from = "folder" /\ WellFormedFolder(probe.x)) =>
       /\ probe.mid = <<probe.x[1], probe.x[2], probe.x[3], probe.x[4], "-",
                        probe.x[5], probe.x[6], "-", probe.x[7], probe.x[8]>>
       /\ probe.out = probe.x
  /\ (probe.applied /\ probe.from = "iso" /\ WellFormedISO(probe.x)) =>
       /\ probe.mid = <<probe.x[1], probe.x[2], probe.x[3], probe.x[4],
                        probe.x[6], probe.x[7], probe.x[9], probe.x[10]>>
       /\ probe.out = probe.x

\* A day has gone from date input form to folder form and
\* back unchanged.
C12_Witness ==
  /\ probe.applied
  /\ probe.from = "iso"
  /\ probe.x = <<"1","9","9","9","-","1","1","-","1","9">>
  /\ probe.mid = <<"1","9","9","9","1","1","1","9">>
  /\ probe.out = probe.x

\* C13: an index that lacks any of cell, range, unit, updated_utc is a success:
\* with times the run goes on to its snapshot, and when that arrives it draws
\* with cell size 2/2, range 0/1, empty unit and provenance "unknown" for
\* whatever is absent; the error display only ever follows a failed fetch.
C13_Defaults ==
  [][/\ \A k \in 1..Len(runs) : \A idx \in OptIndexBodies :
          IndexTimes(k, idx) =>
            /\ Len(runs') = Len(runs)
            /\ runs'[k].pc = "grid"
            /\ status' = status
     /\ \A k \in 1..Len(runs) : \A grid \in SnapshotBodies :
          (shown'.drawn /\ shown'.by = runs[k].id /\ GridDrawn(k, grid)) =>
            LET has == runs[k].idx.has
                idx == runs[k].idx
            IN  /\ status'[1] = "OK (updated: "
                /\ ("updated_utc" \notin has => status'[2] = "unknown")
                /\ ("updated_utc" \in has => status'[2] = idx.updated_utc)
                /\ ("unit" \notin has => legend'[11] = "")
                /\ ("range" \notin has => legend'[9] = "0.00" /\ legend'[10] = "1.00")
                /\ ("range" \in has => legend'[9] = "0.00" /\ legend'[10] = "10.00")
                /\ Len(gridLayer') = Len(CellsOf(grid))
                /\ \A j \in 1..Len(gridLayer') :
                     LET c == CellsOf(grid)[j]
                     IN  /\ ("cell" \notin has =>
                               gridLayer'[j].ne = <<c.lat + 2, c.lon + 2>>)
                         /\ ("cell" \in has =>
                               gridLayer'[j].ne = <<c.lat + idx.cell.dlat, c.lon + idx.cell.dlon>>)
                         /\ ("range" \notin has =>
                               gridLayer'[j].fillColor = colorScale(c.val, 0, 1))
                         /\ ("unit" \notin has => gridLayer'[j].tooltip[3] = "")
     /\ (Len(status') >= 1 /\ status'[1] = "Error: " /\ status' # status) =>
            \E k \in 1..Len(runs) : \E f \in Failures : IndexFails(k, f) \/ GridFails(k, f)
    ]_vars

\* A snapshot drawn under an index that carried only a unit: default cell
\* size, default range (the value 5 is above it, so fully red), default
\* provenance.
C13_Witness ==
  /\ shown.drawn
  /\ runs = << >>
  /\ status = <<"OK (updated: ", "unknown", ")">>
  /\ Len(gridLayer) = 4
  /\ gridLayer[1].ne = <<2, 2>>
  /\ gridLayer[1].fillColor = [r |-> 255, g |-> 0, b |-> 0, a |-> "0.55"]
  /\ gridLayer[1].tooltip = <<"5.00", " ", "TECU">>
  /\ Len(legend) = 11
  /\ legend[9] = "0.00"
  /\ legend[10] = "1.00"
  /\ legend[11] = "TECU"

C14_RunIds ==
  /\ \A j \in 1..Len(runs) : runs[j].id \in 1..nRuns /\ runs[j].pc \in {"index", "grid"}
  /\ \A j, m \in 1..Len(runs) : j # m => runs[j].id # runs[m].id

C14_Step ==
  /\ nRuns' >= nRuns
  /\ \A j \in 1..Len(runs') :
       IF \E m \in 1..Len(runs) : runs[m].id = runs'[j].id
       THEN \A m \in 1..Len(runs) :
              runs[m].id = runs'[j].id =>
                /\ (runs[m].pc = "grid" => runs'[j] = runs[m])
                /\ (runs[m].pc = "index" /\ runs'[j].pc = "index" => runs'[j] = runs[m])
                /\ (runs[m].pc = "index" /\ runs'[j].pc = "grid" =>
                      /\ times' # << >>
                      /\ \E i \in 1..Len(times') : runs'[j].req.hhmm = times'[i]
                      /\ \E idx \in IndexBodies : IndexTimes(m, idx))
       ELSE /\ runs'[j].pc = "index"
            /\ nRuns' = nRuns + 1
            /\ runs'[j].id = nRuns'
  /\ \A k \in 1..Len(runs) :
       ((\E f \in Failures : IndexFails(k, f) \/ GridFails(k, f))
          \/ (\E idx \in IndexBodies : IndexEmpty(k, idx)))
       => /\ nRuns' = nRuns
          /\ Len(runs') = Len(runs) - 1
          /\ \A j \in 1..Len(runs') : runs'[j].id # runs[k].id

\* C14: a run starts with its index request; it gets its one snapshot request
\* only in the step in which its index arrives with times; a run whose index
\* fails or has no times ends without a snapshot request; a run that has its
\* snapshot request keeps that request until it ends; a run that ended is
\* never started again and a failure starts no new run.
C14_Sequential == []C14_RunIds /\ [][C14_Step]_vars

\* The first run has ended in the error display without a snapshot request
\* (its index fetch failed) and the second run, started before that, now has
\* its snapshot request in flight.
C14_Witness ==
  /\ nRuns = 2
  /\ Len(runs) = 1
  /\ runs[1].id = 2
  /\ runs[1].pc = "grid"
  /\ Len(runs[1].req.hhmm) = 4
  /\ Len(status) = 2
  /\ status[1] = "Error: "
  /\ Len(status[2]) = 4
  /\ status[2][4][5] = "/index.json"

\* C15: a date change, kind change or slider move made while the date is
\* unset (null before boot has set it, empty after the date input was
\* cleared) starts no run and leaves grid, status, legend, time label, times
\* and the slider's range as they were; the slider's value is what the
\* handler itself wrote before calling refresh.
C15_NoOp ==
  [][/\ ((\E v \in DateInputValues : DateChange(v)) /\ Falsy(currentDate')) =>
          /\ runs' = runs /\ nRuns' = nRuns
          /\ UNCHANGED <<gridLayer, status, legend, timeLabel, times>>
          /\ slider' = [min |-> slider.min, max |-> slider.max, value |-> SNum(0)]
     /\ ((\E kind \in Kinds : KindChange(kind)) /\ Falsy(currentDate)) =>
          /\ runs' = runs /\ nRuns' = nRuns
          /\ UNCHANGED <<gridLayer, status, legend, timeLabel, times>>
          /\ slider' = [min |-> slider.min, max |-> slider.max, value |-> SNum(0)]
     /\ \A n \in 0..MaxLen :
          (SliderInput(n) /\ Falsy(currentDate)) =>
            /\ runs' = runs /\ nRuns' = nRuns
            /\ UNCHANGED <<gridLayer, status, legend, timeLabel, times>>
            /\ slider' = [min |-> slider.min, max |-> slider.max, value |-> SNum(n)]
    ]_vars

\* The date input was cleared after a snapshot had been drawn: no run was
\* started and the grid, legend and OK status of that render are still there.
C15_Witness ==
  /\ currentDate = << >>
  /\ dateInput = << >>
  /\ runs = << >>
  /\ nRuns = 1
  /\ shown.drawn
  /\ Len(gridLayer) = 4
  /\ status[1] = "OK (updated: "
  /\ slider.value = SNum(0)

\* C16: no step of a refresh run (index failed, no times, times, snapshot
\* failed, snapshot drawn) changes currentDate or currentKind; the date changes
\* only in a date change, a today action or boot, to the value that action
\* assigns, and the kind only in a kind change.
C16_SelectionFrame ==
  [][/\ \A k \in 1..Len(runs) :
          ((\E f \in Failures : IndexFails(k, f) \/ GridFails(k, f))
             \/ (\E idx \in IndexBodies : IndexEmpty(k, idx) \/ IndexTimes(k, idx))
             \/ (\E grid \in SnapshotBodies : GridDrawn(k, grid)))
          => (currentDate' = currentDate /\ currentKind' = currentKind)
     /\ currentKind' # currentKind => \E kind \in Kinds : KindChange(kind) /\ currentKind' = kind
     /\ currentDate' # currentDate =>
          \/ \E v \in DateInputValues : DateChange(v) /\ currentDate' = RemoveAll(v, "-")
          \/ \E resp \in LatestBodies :
               (TodayLatest(resp) \/ BootLatest(resp)) /\ currentDate' = resp.date
          \/ boot = "latest" /\ boot' = "done" /\ currentDate' = FallbackDate
     /\ (\E v \in DateInputValues : DateChange(v)) => currentKind' = currentKind
     /\ (\E kind \in Kinds : KindChange(kind)) => currentDate' = currentDate
    ]_vars

\* The kind was changed to no2 after the fallback boot and both runs have
\* ended, the last one in the error display: date and kind are as set.
C16_Witness ==
  /\ currentKind = "no2"
  /\ currentDate = FallbackDate
  /\ runs = << >>
  /\ nRuns = 2
  /\ Len(status) = 2
  /\ status[1] = "Error: "
  /\ times # << >>

\* C17: the snapshot request of a run is for the date and kind of that run's
\* index request, with a timestamp of that index's times list, whatever
\* date change, kind change or today action happened while the index fetch
\* was in flight.
C17_SameSelection ==
  [][\A k \in 1..Len(runs) : \A idx \in IndexBodies :
       (IndexTimes(k, idx) /\ Len(runs') = Len(runs) /\ runs'[k].pc = "grid") =>
         /\ runs'[k].req.date = runs[k].req.date
         /\ runs'[k].req.kind = runs[k].req.kind
         /\ \E i \in 1..Len(idx.times_utc) : runs'[k].req.hhmm = idx.times_utc[i]
    ]_vars

C18_Quiet == runs = << >> /\ todays = 0 /\ boot = "done"

\* C18: when the user acts only while no run is in flight, then once nothing
\* is in flight a non-empty grid is the snapshot of the current date, kind
\* and times[slider value], and the time label and the legend name that date,
\* kind and timestamp.
C18_ShowsSelection ==
  (C18_Quiet /\ gridLayer # << >>) =>
    /\ ~Falsy(currentDate)
    /\ times # << >>
    /\ slider.value.txt = "num"
    /\ slider.value.n \in 0..(Len(times) - 1)
    /\ shown.req = Request(currentDate, currentKind, times[slider.value.n + 1])
    /\ timeLabel = TimeLabelOf(times[slider.value.n + 1])
    /\ Len(legend) = 11
    /\ legend[2] = toUpperCase(currentKind)
    /\ legend[4] = folderToISODate(currentDate)
    /\ legend[7] = timeLabel

C19_InFlight(id) == \E j \in 1..Len(runs) : runs[j].id = id

C19_NotLoading == runs = << >> => (status = << >> \/ status[1] # "Loading ")

C19_EndStep ==
  \A k \in 1..Len(runs) :
    (\A j \in 1..Len(runs') : runs'[j].id # runs[k].id) =>
      /\ Len(runs') = Len(runs) - 1
      /\ status'[1] \in {"OK (updated: ", "No times in ", "Error: "}
      /\ (status'[1] = "OK (updated: " => runs[k].pc = "grid" /\ shown'.by = runs[k].id)
      /\ (status'[1] = "No times in " => runs[k].pc = "index" /\ times' = << >>)

\* C19: with every fetch eventually resolving or rejecting, every run that is
\* in flight eventually ends; the step that ends it sets the status to one of
\* "OK ...", "No times ..." or "Error: ..."; and whenever no run is in flight
\* the status is not "Loading ...".
C19_Terminates ==
  /\ \A id \in 1..MaxRuns : C19_InFlight(id) ~> ~C19_InFlight(id)
  /\ [][C19_EndStep]_vars
  /\ []C19_NotLoading

\* Two runs overlapped and both have ended, the last of them with "No times".
C19_Witness ==
  /\ runs = << >>
  /\ nRuns = 2
  /\ Len(status) = 3
  /\ status[1] = "No times in "
  /\ ~shown.drawn
  /\ timeLabel = NoTimeLabel

\* C20: in every state the grid layer is empty or holds, in order, one
\* rectangle for each cell of one snapshot response, all drawn with one cell
\* size and one unit; rectangles of two draws are never there together.
C20_OneSnapshot ==
  /\ (gridLayer # << >> => shown.drawn)
  /\ \/ gridLayer = << >>
     \/ \E grid \in SnapshotBodies :
          /\ Len(gridLayer) = Len(CellsOf(grid))
          /\ \A j \in 1..Len(gridLayer) :
               /\ gridLayer[j].sw = <<CellsOf(grid)[j].lat, CellsOf(grid)[j].lon>>
               /\ gridLayer[j].tooltip[1] = toFixed2(CellsOf(grid)[j].val)
          /\ \E size \in {<<2, 2>>, <<1, 3>>} :
               \A j \in 1..Len(gridLayer) :
                 gridLayer[j].ne = <<gridLayer[j].sw[1] + size[1], gridLayer[j].sw[2] + size[2]>>
          /\ \A j, m \in 1..Len(gridLayer) : gridLayer[j].tooltip[3] = gridLayer[m].tooltip[3]

\* Two overlapping runs have both drawn, the older one last, with the index
\* that has no optional fields: the layer holds that draw's four rectangles.
C20_Witness ==
  /\ shown.drawn
  /\ shown.over
  /\ shown.by = 1
  /\ nRuns = 2
  /\ Len(gridLayer) = 4
  /\ gridLayer[4].ne = <<10, 8>>
  /\ gridLayer[4].fillColor.a = "0"

====
